---- MODULE Spec2Model ----
(***************************************************************************)
(* with-secret: the secret-definition parser (src/input.rs) and the        *)
(* non-interactive `set` command that imports its output into a profile    *)
(* (src/main.rs).                                                          *)
(*                                                                         *)
(* A text is a sequence of characters; a character is a one-element        *)
(* string.  The nom combinators the parser is built from (nom 7, the       *)
(* `complete` variants) are modelled by what they do on such sequences.    *)
(*                                                                         *)
(* Of run_set, the branch modelled is the one taken when standard input is *)
(* not a terminal and no variable name is given.  Failures of the secret   *)
(* service, of reading standard input and of its UTF-8 decoding are left   *)
(* out: each returns before the parser runs or the profile is stored.      *)
(***************************************************************************)
EXTENDS Integers, Sequences

\* ------------------------------------------------------------ characters

SP  == " "
TAB == "TAB"
LF  == "LF"
CR  == "CR"
DQ  == "\""
SQ  == "'"
BS  == "\\"
EQ  == "="
US  == "_"
\* U+00E9, a letter outside ASCII; U+00A0, a white space outside ASCII.
EACUTE == "U+00E9"
NBSP   == "U+00A0"
\* An ordinary punctuation character: no letter, digit, blank or quote.
DASH == "-"

AsciiAlnum == {"A", "B", "Z", "b", "c", "e", "x", "p", "o", "r", "t", "1", "2", "3"}

AllChars == AsciiAlnum \cup {SP, TAB, LF, CR, DQ, SQ, BS, EQ, US, EACUTE, NBSP, DASH}

\* nom's space0 / space1: a blank or a tab.
SpaceTab == {SP, TAB}

\* char::is_whitespace: Unicode White_Space.
Whitespace == {SP, TAB, LF, CR, NBSP}

\* char::is_alphanumeric() || c == '_': Unicode Alphabetic or Numeric.
KeyChars == AsciiAlnum \cup {EACUTE, US}

\* ------------------------------------------------------------ texts

Take(s, n) == SubSeq(s, 1, n)
Drop(s, n) == SubSeq(s, n + 1, Len(s))

\* The length of the longest prefix of s made of characters of S
\* (take_while, is_a, is_not, space0, space1 all split there).
SpanLen(s, S) ==
  CHOOSE n \in 0..Len(s) :
    /\ \A k \in 1..n : s[k] \in S
    /\ n = Len(s) \/ s[n + 1] \notin S

\* tag(t): s starts with t.
HasPrefix(s, t) == Len(s) >= Len(t) /\ Take(s, Len(t)) = t

EXPORT == <<"e", "x", "p", "o", "r", "t">>

\* A parser's answer: Err::Error, or Ok((rest, out)).
Fail == [ok |-> FALSE]
Done(rest, out) == [ok |-> TRUE, rest |-> rest, out |-> out]

\* ------------------------------------------------------------ the grammar

\* equal_sign: space0, "=", space0.
equal_sign(input) ==
  LET a == Drop(input, SpanLen(input, SpaceTab))
  IN IF HasPrefix(a, <<EQ>>)
     THEN LET b == Drop(a, 1)
          IN Done(Drop(b, SpanLen(b, SpaceTab)), <<>>)
     ELSE Fail

\* escaped(is_not(q \), '\', is_a(q)) with i the text still to scan.
\* normal = is_not consumes one or more characters or fails (so escaped's
\* branch for a normal parser that consumes nothing is never taken);
\* escapable = is_a consumes the whole run of q that follows the backslash.
RECURSIVE escaped(_, _, _)
escaped(input, i, q) ==
  IF Len(i) = 0 THEN Done(<<>>, input)
  ELSE LET n == SpanLen(i, AllChars \ {q, BS})
       IN IF n > 0
          THEN IF n = Len(i) THEN Done(<<>>, input)
               ELSE escaped(input, Drop(i, n), q)
          ELSE IF i[1] = BS
               THEN IF 1 >= Len(i) THEN Fail
                    ELSE LET m == SpanLen(Drop(i, 1), {q})
                         IN IF m = 0 THEN Fail
                            ELSE IF 1 + m = Len(i) THEN Done(<<>>, input)
                            ELSE escaped(input, Drop(i, 1 + m), q)
               ELSE LET index == Len(input) - Len(i)
                    IN IF index = 0 THEN Fail
                       ELSE Done(i, Take(input, index))

\* delimited(tag(q), escaped(...), tag(q)).
quoted(input, q) ==
  IF ~HasPrefix(input, <<q>>) THEN Fail
  ELSE LET e == escaped(Drop(input, 1), Drop(input, 1), q)
       IN IF e.ok /\ HasPrefix(e.rest, <<q>>)
          THEN Done(Drop(e.rest, 1), e.out)
          ELSE Fail

\* is_not("'\" \r\n"): one or more characters.
unquoted(input) ==
  LET n == SpanLen(input, AllChars \ {SQ, DQ, SP, CR, LF})
  IN IF n = 0 THEN Fail ELSE Done(Drop(input, n), Take(input, n))

\* maybe_quoted_value: alt of the three forms, in this order.
maybe_quoted_value(input) ==
  LET d == quoted(input, DQ)
      s == quoted(input, SQ)
  IN IF d.ok THEN d ELSE IF s.ok THEN s ELSE unquoted(input)

\* str::replace(from, to) for a two-character `from` and a one-character
\* `to`: the non-overlapping matches, found left to right, are replaced.
RECURSIVE replace(_, _, _)
replace(s, from, to) ==
  IF Len(s) < 2 THEN s
  ELSE IF Take(s, 2) = from THEN <<to>> \o replace(Drop(s, 2), from, to)
  ELSE <<s[1]>> \o replace(Drop(s, 1), from, to)

\* A variant of unescape: the backslash pair is collapsed first.
unescape_backslash_first(raw) ==
  replace(replace(replace(raw, <<BS, BS>>, BS), <<BS, DQ>>, DQ), <<BS, SQ>>, SQ)

\* The three replacements of one_secret, in the order of the code.
unescape(raw) ==
  replace(replace(replace(raw, <<BS, DQ>>, DQ), <<BS, SQ>>, SQ), <<BS, BS>>, BS)

\* opt(tuple((tag("export"), space1))): the rest after it, or the input.
opt_export(input) ==
  LET a == Drop(input, Len(EXPORT))
  IN IF HasPrefix(input, EXPORT) /\ SpanLen(a, SpaceTab) >= 1
     THEN Drop(a, SpanLen(a, SpaceTab))
     ELSE input

\* one_secret: Fail, or the rest with the key, the raw value and the value.
one_secret(input) ==
  LET a   == Drop(input, SpanLen(input, Whitespace))
      b   == opt_export(a)
      k   == SpanLen(b, KeyChars)
      e   == equal_sign(Drop(b, k))
      v   == maybe_quoted_value(e.rest)
  IN IF ~e.ok THEN Fail
     ELSE IF ~v.ok THEN Fail
     ELSE [ok |-> TRUE,
           rest |-> Drop(v.rest, SpanLen(v.rest, {CR, LF})),
           key |-> Take(b, k),
           raw |-> v.out,
           value |-> unescape(v.out)]

\* A variant of push: a pair replaces the earlier pairs of its key.
push_unique_key(secrets, o) ==
  SelectSeq(secrets, LAMBDA p : p[1] # o[1]) \o <<o>>

\* many1's acc.push(o).
push(secrets, o) == Append(secrets, o)

\* many1's answer: Err::Error, or Ok((rest, secrets)).
Many1Ok(rest, secrets) == [ok |-> TRUE, rest |-> rest, secrets |-> secrets]

\* ------------------------------------------------------------ the store

\* ProfileInfo::default(): no members.
EmptyMembers == [k \in {} |-> <<>>]

\* What the secret service holds for the profile: keyring::Error::NoEntry,
\* or the stored members.
NoEntry == [present |-> FALSE, members |-> EmptyMembers]
Stored(members) == [present |-> TRUE, members |-> members]

\* A variant of Insert: a key already present keeps its value.
insert_if_absent(m, k, v) ==
  [x \in DOMAIN m \cup {k} |-> IF x \in DOMAIN m THEN m[x] ELSE v]

\* HashMap::insert.
Insert(m, k, v) == [x \in DOMAIN m \cup {k} |-> IF x = k THEN v ELSE m[x]]

\* HashMap::extend(Vec<(String, String)>): insert each pair, in order.
RECURSIVE Extend(_, _)
Extend(m, pairs) ==
  IF pairs = <<>> THEN m
  ELSE Extend(Insert(m, pairs[1][1], pairs[1][2]), Tail(pairs))

\* get_profile_info(profile, true).
get_profile_info(st) == IF st.present THEN st.members ELSE EmptyMembers

\* ------------------------------------------------------------ inputs

MaxLen     == 3
MaxTerm    == 2
MaxContent == 3
MaxEntries == 3
MaxRaw     == 6

RECURSIVE Flatten(_)
Flatten(ss) == IF ss = <<>> THEN <<>> ELSE ss[1] \o Flatten(Tail(ss))

\* All texts over S of length at most n.
Texts(S, n) == UNION {[1..k -> S] : k \in 0..n}

\* Any short text over the characters the grammar tells apart.
Sigma == {"A", EQ, SP, TAB, LF, DQ, SQ, BS, EACUTE, NBSP}
AnyInputs == Texts(Sigma, MaxLen)

\* One entry in each of the shapes `K=v`, `K = v`, `export K=v`,
\* `export K = v`, bare or quoted, followed by a run of CR/LF.
ShapeKeys == {<<"A">>, <<"A", US, "1">>, EXPORT}
ShapeVals == {<<"b">>, <<DASH, "b", EQ>>}
Wrap(v, q) == IF q = "" THEN v ELSE <<q>> \o v \o <<q>>
ShapeCases ==
  {[text |-> (IF ex THEN EXPORT \o <<SP>> ELSE <<>>) \o k
               \o (IF spaced THEN <<SP, EQ, SP>> ELSE <<EQ>>)
               \o Wrap(v, q) \o term,
    key |-> k, val |-> v, export |-> ex, spaced |-> spaced, quote |-> q]
   : k \in ShapeKeys, v \in ShapeVals, ex \in BOOLEAN, spaced \in BOOLEAN,
     q \in {"", DQ, SQ}, term \in Texts({CR, LF}, MaxTerm)}

\* One entry with a quoted value whose content is a sequence of ordinary
\* characters ("b", or the other quote) and escaped quotes.
OtherQuote(q) == IF q = DQ THEN SQ ELSE DQ
ContentText(c, q) ==
  Flatten([n \in 1..Len(c) |->
            IF c[n] = "esc" THEN <<BS, q>>
            ELSE IF c[n] = "other" THEN <<OtherQuote(q)>> ELSE <<"b">>])
ContentValue(c, q) ==
  [n \in 1..Len(c) |->
     IF c[n] = "esc" THEN q ELSE IF c[n] = "other" THEN OtherQuote(q) ELSE "b"]
QuotedCases ==
  {[text |-> <<"A", EQ, q>> \o ContentText(c, q) \o <<q>>,
    val |-> ContentValue(c, q), content |-> c, quote |-> q]
   : c \in Texts({"ord", "esc", "other"}, MaxContent) \ {<<>>}, q \in {DQ, SQ}}

\* A batch: well-formed lines, each ended by LF, then possibly a malformed
\* tail.
GoodLines ==
  {[text |-> <<"A", EQ, "1">>, key |-> <<"A">>, val |-> <<"1">>],
   [text |-> <<SP, "A", SP, EQ, SP, "2">>, key |-> <<"A">>, val |-> <<"2">>],
   [text |-> <<"B", EQ, SQ, "1", SQ>>, key |-> <<"B">>, val |-> <<"1">>],
   [text |-> EXPORT \o <<SP, "B", EQ, DQ, "2", SP, "3", DQ>>,
    key |-> <<"B">>, val |-> <<"2", SP, "3">>]}
BadTails == {<<>>, <<"B">>, <<SP>>, <<"A", EQ, DQ, "b">>, <<"A", EQ, "1", SP, "B">>}
BatchText(ls) == Flatten([n \in 1..Len(ls) |-> ls[n].text \o <<LF>>])
BatchPairs(ls) == [n \in 1..Len(ls) |-> <<ls[n].key, ls[n].val>>]
BatchCases ==
  {[text |-> BatchText(ls) \o t, lines |-> ls, tail |-> t]
   : ls \in Texts(GoodLines, MaxEntries), t \in BadTails}

Inputs ==
  AnyInputs \cup {c.text : c \in ShapeCases} \cup {c.text : c \in QuotedCases}
            \cup {c.text : c \in BatchCases}

\* What the profile may hold before the command runs.
Stores ==
  {NoEntry,
   Stored([k \in {<<"A">>, <<"Z">>} |-> IF k = <<"A">> THEN <<"o">> ELSE <<"z">>])}

\* ------------------------------------------------------------ the program

VARIABLES
  input,    \* the text on standard input
  store,    \* the profile's stored members, or NoEntry
  pc,       \* where run_set is
  info,     \* run_set's ProfileInfo
  i,        \* many1's remaining input
  acc,      \* many1's accumulator
  raw,      \* the raw value of the entry parsed last
  value,    \* its value, unescaped
  res,      \* many1's answer
  result,   \* parse_secrets' answer
  outcome   \* run_set's answer

vars == <<input, store, pc, info, i, acc, raw, value, res, result, outcome>>

\* Not yet computed.
None == [ok |-> FALSE, none |-> TRUE]

Init ==
  /\ input \in Inputs
  /\ store \in Stores
  /\ pc = "run_set"
  /\ info = EmptyMembers
  /\ i = <<>>
  /\ acc = <<>>
  /\ raw = <<>>
  /\ value = <<>>
  /\ res = None
  /\ result = None
  /\ outcome = "None"

\* run_set, standard input not a terminal and no variable names: the
\* profile is read (created in memory when absent), standard input is read
\* to its end and handed to parse_secrets.
RunSetRead ==
  /\ pc = "run_set"
  /\ info' = get_profile_info(store)
  /\ i' = input
  /\ pc' = "many1"
  /\ UNCHANGED <<input, store, acc, raw, value, res, result, outcome>>

\* many1: the first entry must parse.
Many1First ==
  /\ pc = "many1"
  /\ LET r == one_secret(i)
     IN IF ~r.ok
        THEN /\ res' = Fail
             /\ pc' = "match"
             /\ UNCHANGED <<i, acc, raw, value>>
        ELSE /\ acc' = push(<<>>, <<r.key, r.value>>)
             /\ raw' = r.raw
             /\ value' = r.value
             /\ i' = r.rest
             /\ pc' = "loop"
             /\ UNCHANGED res
  /\ UNCHANGED <<input, store, info, result, outcome>>

\* A variant of Many1Loop: the entry is kept but the input is not advanced.
Many1LoopNoAdvance ==
  /\ pc = "loop"
  /\ LET r == one_secret(i)
     IN IF ~r.ok
        THEN /\ res' = Many1Ok(i, acc)
             /\ pc' = "match"
             /\ UNCHANGED <<i, acc, raw, value>>
        ELSE /\ acc' = push(acc, <<r.key, r.value>>)
             /\ raw' = r.raw
             /\ value' = r.value
             /\ UNCHANGED <<i, pc, res>>
  /\ UNCHANGED <<input, store, info, result, outcome>>

\* many1: one more entry, until one fails; an entry that consumed nothing
\* would be an error.
Many1Loop ==
  /\ pc = "loop"
  /\ LET r == one_secret(i)
     IN IF ~r.ok
        THEN /\ res' = Many1Ok(i, acc)
             /\ pc' = "match"
             /\ UNCHANGED <<i, acc, raw, value>>
        ELSE IF Len(r.rest) = Len(i)
        THEN /\ res' = Fail
             /\ pc' = "match"
             /\ UNCHANGED <<i, acc, raw, value>>
        ELSE /\ acc' = push(acc, <<r.key, r.value>>)
             /\ raw' = r.raw
             /\ value' = r.value
             /\ i' = r.rest
             /\ UNCHANGED <<pc, res>>
  /\ UNCHANGED <<input, store, info, result, outcome>>

\* WithError::ParseError(tail): the unconsumed input.
TrailingInput(tail) == [ok |-> FALSE, error |-> "ParseError", tail |-> tail]
\* WithError::ParseError(err.to_string()): nom's diagnostic.
GrammarFailure == [ok |-> FALSE, error |-> "ParseError", nom |-> "Error"]
Secrets(secrets) == [ok |-> TRUE, secrets |-> secrets]

\* A variant of parse_secrets_match: left-over white space is let through.
parse_secrets_match_trimmed(r) ==
  IF r.ok /\ (\A n \in 1..Len(r.rest) : r.rest[n] \in Whitespace)
  THEN Secrets(r.secrets)
  ELSE IF r.ok THEN TrailingInput(r.rest)
  ELSE GrammarFailure

\* A variant of parse_secrets_match: every failure is reported alike.
parse_secrets_match_one_error(r) ==
  IF r.ok /\ r.rest = <<>> THEN Secrets(r.secrets) ELSE GrammarFailure

\* parse_secrets: the match on many1's answer.
parse_secrets_match(r) ==
  IF r.ok /\ r.rest = <<>> THEN Secrets(r.secrets)
  ELSE IF r.ok THEN TrailingInput(r.rest)
  ELSE GrammarFailure

ParseSecretsMatch ==
  /\ pc = "match"
  /\ result' = parse_secrets_match(res)
  /\ pc' = "parsed"
  /\ UNCHANGED <<input, store, info, i, acc, raw, value, res, outcome>>

\* upsert_profile_info: the members are stored.
upsert_profile_info(st, members) == Stored(members)

\* A variant of RunSetStore: the entries parsed before a failure are stored.
RunSetStorePartial ==
  /\ pc = "parsed"
  /\ info' = Extend(info, acc)
  /\ store' = upsert_profile_info(store, info')
  /\ outcome' = IF result.ok THEN "Ok" ELSE "Err"
  /\ pc' = "done"
  /\ UNCHANGED <<input, i, acc, raw, value, res, result>>

\* run_set after parse_secrets: `?` returns the error; otherwise the
\* secrets are merged into the members and the profile is stored.
RunSetStore ==
  /\ pc = "parsed"
  /\ IF result.ok
     THEN /\ info' = Extend(info, result.secrets)
          /\ store' = upsert_profile_info(store, info')
          /\ outcome' = "Ok"
     ELSE /\ outcome' = "Err"
          /\ UNCHANGED <<info, store>>
  /\ pc' = "done"
  /\ UNCHANGED <<input, i, acc, raw, value, res, result>>

Next == RunSetRead \/ Many1First \/ Many1Loop \/ ParseSecretsMatch \/ RunSetStore

Spec == Init /\ [][Next]_vars

\* ------------------------------------------------------------ unescaping alone

\* Any short raw value over the characters the replacements tell apart.
RawValues == Texts({BS, DQ, SQ, "b"}, MaxRaw)

InitUnescape ==
  /\ raw \in RawValues
  /\ pc = "unescape"
  /\ value = <<>>
  /\ input = <<>>
  /\ store = NoEntry
  /\ info = EmptyMembers
  /\ i = <<>>
  /\ acc = <<>>
  /\ res = None
  /\ result = None
  /\ outcome = "None"

\* one_secret's value.to_owned().replace(..).replace(..).replace(..).
ApplyUnescape ==
  /\ pc = "unescape"
  /\ value' = unescape(raw)
  /\ pc' = "unescaped"
  /\ UNCHANGED <<input, store, info, i, acc, raw, res, result, outcome>>

NextUnescape == ApplyUnescape

SpecUnescape == InitUnescape /\ [][NextUnescape]_vars

\* ------------------------------------------------------------ the claims

Parsed == pc \in {"parsed", "done"}

IsTrailingInput(r) == ~r.ok /\ "tail" \in DOMAIN r
IsGrammarFailure(r) == ~r.ok /\ "nom" \in DOMAIN r

\* s is one or more entries, end to end: it can be cut into pieces each of
\* which one_secret parses and consumes whole.
RECURSIVE EntrySequence(_)
EntrySequence(s) ==
  /\ s # <<>>
  /\ \E n \in 1..Len(s) :
       LET r == one_secret(Take(s, n))
       IN /\ r.ok
          /\ r.rest = <<>>
          /\ (n = Len(s) \/ EntrySequence(Drop(s, n)))

\* C1: parse_secrets succeeds exactly when the whole input is a sequence of
\* one or more entries; whenever the repetition stops with input left over,
\* blanks and tabs included, the answer is an error.
C1_WholeInputConsumed ==
  Parsed =>
    /\ result.ok <=> EntrySequence(input)
    /\ result.ok <=> (acc # <<>> /\ i = <<>>)
    /\ i # <<>> => ~result.ok

\* C1 witness: an entry parsed, only blanks or tabs are left, and the
\* answer is an error.
C1_Witness ==
  /\ pc = "done"
  /\ acc # <<>>
  /\ i # <<>>
  /\ \A n \in 1..Len(i) : i[n] \in SpaceTab
  /\ ~result.ok

\* C2: a batch of well-formed lines is accepted and yields one pair per
\* line, in the order of the lines, repeated keys kept; and what is
\* returned is what the repetition accumulated.
C2_OnePairPerEntry ==
  Parsed =>
    /\ result.ok => result.secrets = acc
    /\ \A c \in BatchCases :
         (c.text = input /\ c.lines # <<>> /\ c.tail = <<>>) =>
           /\ result.ok
           /\ result.secrets = BatchPairs(c.lines)

\* C2 witness: an accepted input whose list holds the same key twice, with
\* another key in between.
C2_Witness ==
  /\ pc = "done"
  /\ result.ok
  /\ Len(result.secrets) = 3
  /\ result.secrets[1][1] = result.secrets[3][1]
  /\ result.secrets[1][2] # result.secrets[3][2]
  /\ result.secrets[2][1] # result.secrets[1][1]

StoreOnlyOnSuccess == (store' # store) => (pc = "parsed" /\ result.ok)

\* C3: a failed parse carries an error and no entries, and run_set then
\* returns the error with the stored profile untouched: the store changes
\* only in the storing step that follows a successful parse.
C3_AllOrNothing ==
  /\ [](Parsed /\ ~result.ok => "secrets" \notin DOMAIN result)
  /\ [](pc = "done" /\ ~result.ok => outcome = "Err")
  /\ [][StoreOnlyOnSuccess]_vars

\* C3 witness: two entries parsed before the failure, and still no profile.
C3_Witness ==
  /\ pc = "done"
  /\ ~result.ok
  /\ Len(acc) >= 2
  /\ store = NoEntry

\* C4: the error is the trailing-input one exactly when an entry parsed and
\* input is left, and then it carries the suffix of the input that follows
\* the parsed entries and their CR/LF; it is the grammar one exactly when
\* no entry parses at the start of the input.
C4_ErrorKinds ==
  Parsed =>
    /\ IsTrailingInput(result) <=> (acc # <<>> /\ i # <<>>)
    /\ IsTrailingInput(result) =>
         LET n == Len(input) - Len(result.tail)
         IN /\ n >= 1
            /\ result.tail = Drop(input, n)
            /\ EntrySequence(Take(input, n))
            /\ result.tail[1] \notin {CR, LF}
    /\ IsGrammarFailure(result) <=> ~one_secret(input).ok
    /\ IsGrammarFailure(result) <=> acc = <<>>

\* C4 witness: two lines parsed, and the bare word after them is reported.
C4_Witness ==
  /\ pc = "done"
  /\ Len(acc) = 2
  /\ IsTrailingInput(result)
  /\ result.tail = <<"B">>

\* C5: a quoted value made of ordinary characters and escaped quotes is
\* accepted, and its value is the content with each escaped quote replaced
\* by the quote.
C5_QuotedEscapes ==
  Parsed =>
    \A c \in QuotedCases :
      c.text = input => result = Secrets(<<<<<<"A">>, c.val>>>>)

\* C6: every key of an accepted input is made of ASCII letters, digits and
\* underscores only.
C6_AsciiKeys ==
  Parsed /\ result.ok =>
    \A n \in 1..Len(result.secrets) :
      \A k \in 1..Len(result.secrets[n][1]) :
        result.secrets[n][1][k] \in AsciiAlnum \cup {US}

\* The keys of a list of pairs, and the value of a key's last pair.
KeysOf(pairs) == {pairs[n][1] : n \in 1..Len(pairs)}
LastValue(pairs, k) ==
  pairs[CHOOSE n \in 1..Len(pairs) :
          /\ pairs[n][1] = k
          /\ \A m \in (n + 1)..Len(pairs) : pairs[m][1] # k][2]
Overridden(old, pairs) ==
  [k \in DOMAIN old \cup KeysOf(pairs) |->
     IF k \in KeysOf(pairs) THEN LastValue(pairs, k) ELSE old[k]]

StoreStep ==
  IF pc = "parsed" /\ result.ok
  THEN /\ store' = Stored(Overridden(get_profile_info(store), result.secrets))
       /\ \A c \in BatchCases :
            (c.text = input /\ c.tail = <<>>) =>
              store'.members =
                Overridden(get_profile_info(store), BatchPairs(c.lines))
  ELSE store' = store

\* C7: the storing step after a successful parse stores the previous
\* members overridden by the parsed pairs, the last occurrence of a key
\* winning and every other key keeping its value; no other step stores.
C7_LastOccurrenceWins ==
  [][StoreStep]_vars

\* C7 witness: A was stored, the input set it to 1 and then to 2, and Z,
\* which the input does not name, is as it was.
C7_Witness ==
  /\ pc = "done"
  /\ result.ok
  /\ \E n \in 1..Len(acc) : \E m \in (n + 1)..Len(acc) :
       /\ acc[n] = <<<<"A">>, <<"1">>>>
       /\ acc[m] = <<<<"A">>, <<"2">>>>
       /\ \A l \in (m + 1)..Len(acc) : acc[l][1] # <<"A">>
  /\ store.present
  /\ store.members[<<"A">>] = <<"2">>
  /\ store.members[<<"Z">>] = <<"z">>

\* C8: every shape of one entry, with or without export, blanks around the
\* equals sign, quotes and a CR/LF run, parses to the one pair (K, v).
C8_ShapesAgree ==
  Parsed =>
    \A c \in ShapeCases :
      c.text = input => result = Secrets(<<<<c.key, c.val>>>>)

\* One pass from left to right: each of the three two-character sequences
\* becomes its second character, and what was produced is not read again.
RECURSIVE single_pass(_)
single_pass(s) ==
  IF Len(s) < 2 THEN s
  ELSE IF s[1] = BS /\ s[2] \in {DQ, SQ, BS}
       THEN <<s[2]>> \o single_pass(Drop(s, 2))
       ELSE <<s[1]>> \o single_pass(Drop(s, 1))

\* C9: the three replacements in the code's order give what one pass from
\* left to right gives, and change nothing in a raw value with no backslash.
C9_UnescapedOnce ==
  pc = "unescaped" =>
    /\ value = single_pass(raw)
    /\ (\A n \in 1..Len(raw) : raw[n] # BS) => value = raw

\* C9 witness: a raw value in which all three sequences occur.
C9_Witness ==
  /\ pc = "unescaped"
  /\ raw = <<BS, BS, BS, DQ, BS, SQ>>
  /\ value = <<BS, DQ, SQ>>

\* A step of the repetition, with r the attempt it makes.
ForwardStep ==
  (pc \in {"many1", "loop"}) =>
    LET r == one_secret(i)
    IN /\ Len(i') <= Len(i)
       /\ (acc' # acc) => Len(i') < Len(i)
       /\ (~r.ok) => (pc' = "match" /\ acc' = acc /\ i' = i)
       /\ (pc' = "match") => ~r.ok

\* What is left to do: a number that every step lowers.
Measure ==
  CASE pc = "run_set" -> Len(input) + 5
    [] pc = "many1"   -> Len(i) + 4
    [] pc = "loop"    -> Len(i) + 3
    [] pc = "match"   -> 2
    [] pc = "parsed"  -> 1
    [] pc = "done"    -> 0

Progress == Measure' < Measure /\ Measure' >= 0

\* C10: the parse ends with a list or an error, in a number of steps
\* bounded by the length of the input: every step lowers the measure, which
\* is zero only at the end; the remaining input never grows, every entry
\* parsed shortens it, and the repetition stops at the first attempt that
\* fails.
C10_Terminates ==
  /\ [](Measure = 0 => (result.ok \/ IsTrailingInput(result) \/ IsGrammarFailure(result)))
  /\ [][Progress]_vars
  /\ [][ForwardStep]_vars

\* C10 witness: three entries parsed, the input exhausted, the run over.
C10_Witness ==
  /\ pc = "done"
  /\ Len(acc) = 3
  /\ i = <<>>
  /\ input # <<>>

====
